---- MODULE Spec2Model ----
(***************************************************************************)
(* Model of uriparser's InternalSetHostMm (src/src/UriSetHostCommon.c):    *)
(* the routine behind uriSetHostIp4/Ip6/IpFuture/RegName that validates a  *)
(* new host text, makes the URI own its memory, installs the new host and  *)
(* releases the old one, rolling back when an allocation fails.            *)
(*                                                                         *)
(* Memory is modelled at pointer level: a pointer is a record              *)
(* [seg, id, off]; heap cells carry their content and who allocated them.  *)
(* Text is a sequence of one-character strings.                            *)
(***************************************************************************)
EXTENDS Integers, Sequences, FiniteSets, TLC

(***************************************************************************)
(* Bounds                                                                  *)
(***************************************************************************)
\* number of cells of the allocator's pool; malloc fails when none is free
NAddr == 6

\* number of SetHost calls made on one URI
MaxCalls == 3

(***************************************************************************)
(* Result codes                                                            *)
(***************************************************************************)
URI_SUCCESS == "URI_SUCCESS"
URI_ERROR_SYNTAX == "URI_ERROR_SYNTAX"
URI_ERROR_NULL == "URI_ERROR_NULL"
URI_ERROR_MALLOC == "URI_ERROR_MALLOC"
URI_ERROR_SETHOST_USERINFO_SET == "URI_ERROR_SETHOST_USERINFO_SET"
URI_ERROR_SETHOST_PORT_SET == "URI_ERROR_SETHOST_PORT_SET"

URI_HOST_TYPE_IP4 == "URI_HOST_TYPE_IP4"
URI_HOST_TYPE_IP6 == "URI_HOST_TYPE_IP6"
URI_HOST_TYPE_IPFUTURE == "URI_HOST_TYPE_IPFUTURE"
URI_HOST_TYPE_REGNAME == "URI_HOST_TYPE_REGNAME"

UriHostType ==
  {URI_HOST_TYPE_IP4, URI_HOST_TYPE_IP6, URI_HOST_TYPE_IPFUTURE, URI_HOST_TYPE_REGNAME}

(***************************************************************************)
(* Text helpers                                                            *)
(***************************************************************************)
Digits == {"0", "1", "2", "3", "4", "5", "6", "7", "8", "9"}

HexLetters == {"a", "b", "c", "d", "e", "f", "A", "B", "C", "D", "E", "F"}

HexDigits == Digits \cup HexLetters

Alpha ==
  {"a", "b", "c", "d", "e", "f", "g", "h", "i", "j", "k", "l", "m",
   "n", "o", "p", "q", "r", "s", "t", "u", "v", "w", "x", "y", "z"}

Unreserved == Alpha \cup Digits \cup {"-", ".", "_", "~"}

SubDelims == {"!", "$", "&", "'", "(", ")", "*", "+", ",", ";", "="}

HexVal(c) ==
  CASE c = "0" -> 0 [] c = "1" -> 1 [] c = "2" -> 2 [] c = "3" -> 3
    [] c = "4" -> 4 [] c = "5" -> 5 [] c = "6" -> 6 [] c = "7" -> 7
    [] c = "8" -> 8 [] c = "9" -> 9
    [] c \in {"a", "A"} -> 10 [] c \in {"b", "B"} -> 11
    [] c \in {"c", "C"} -> 12 [] c \in {"d", "D"} -> 13
    [] c \in {"e", "E"} -> 14 [] c \in {"f", "F"} -> 15

RECURSIVE NumVal(_, _)
\* value of the digit string s read in the given base
NumVal(s, base) ==
  IF s = <<>> THEN 0
  ELSE NumVal(SubSeq(s, 1, Len(s) - 1), base) * base + HexVal(s[Len(s)])

RECURSIVE Split(_, _)
\* the pieces of s between occurrences of sep (n separators give n+1 pieces)
Split(s, sep) ==
  IF \A i \in 1..Len(s) : s[i] # sep THEN <<s>>
  ELSE LET k == CHOOSE i \in 1..Len(s) :
                  s[i] = sep /\ \A j \in 1..(i - 1) : s[j] # sep
       IN <<SubSeq(s, 1, k - 1)>> \o Split(SubSeq(s, k + 1, Len(s)), sep)

RECURSIVE Flatten(_)
Flatten(ss) == IF ss = <<>> THEN <<>> ELSE Head(ss) \o Flatten(Tail(ss))

(***************************************************************************)
(* Host-syntax validators and binary parsers (collaborators)               *)
(***************************************************************************)
\* dec-octet of RFC 3986: 0..255 without leading zeros
IsDecOctet(s) ==
  /\ Len(s) \in 1..3
  /\ \A i \in 1..Len(s) : s[i] \in Digits
  /\ (Len(s) > 1 => s[1] # "0")
  /\ NumVal(s, 10) <= 255

IsWellFormedHostIp4(text) ==
  LET parts == Split(text, ".")
  IN Len(parts) = 4 /\ \A i \in 1..4 : IsDecOctet(parts[i])

ParseIpFourAddress(text) ==
  LET parts == Split(text, ".")
  IN [i \in 1..4 |-> NumVal(parts[i], 10)]

\* h16 of RFC 3986: one to four hex digits
IsH16(s) == Len(s) \in 1..4 /\ \A i \in 1..Len(s) : s[i] \in HexDigits

\* a possibly empty list of h16 groups separated by single colons
Ip6Groups(s) == IF s = <<>> THEN <<>> ELSE Split(s, ":")

IsH16List(s) == \A i \in 1..Len(Ip6Groups(s)) : IsH16(Ip6Groups(s)[i])

\* position of the first "::" in s, 0 when there is none
DoubleColonAt(s) ==
  IF \E i \in 1..(Len(s) - 1) : s[i] = ":" /\ s[i + 1] = ":"
  THEN CHOOSE i \in 1..(Len(s) - 1) :
         /\ s[i] = ":" /\ s[i + 1] = ":"
         /\ \A j \in 1..(i - 1) : ~(s[j] = ":" /\ s[j + 1] = ":")
  ELSE 0

Ip6Left(s) == SubSeq(s, 1, DoubleColonAt(s) - 1)

Ip6Right(s) == SubSeq(s, DoubleColonAt(s) + 2, Len(s))

\* IPv6address of RFC 3986 without the embedded-IPv4 tail
IsWellFormedHostIp6(text) ==
  IF DoubleColonAt(text) = 0
  THEN Len(Ip6Groups(text)) = 8 /\ IsH16List(text)
  ELSE /\ IsH16List(Ip6Left(text))
       /\ IsH16List(Ip6Right(text))
       /\ Len(Ip6Groups(Ip6Left(text))) + Len(Ip6Groups(Ip6Right(text))) <= 7

\* the two bytes of a 16 bit group, high byte first
GroupBytes(g) == <<NumVal(g, 16) \div 256, NumVal(g, 16) % 256>>

GroupsBytes(gs) == Flatten([i \in 1..Len(gs) |-> GroupBytes(gs[i])])

ParseIpSixAddress(text) ==
  IF DoubleColonAt(text) = 0
  THEN GroupsBytes(Ip6Groups(text))
  ELSE LET l == Ip6Groups(Ip6Left(text))
           r == Ip6Groups(Ip6Right(text))
       IN GroupsBytes(l) \o [i \in 1..(2 * (8 - Len(l) - Len(r))) |-> 0]
            \o GroupsBytes(r)

\* IPvFuture = "v" 1*HEXDIG "." 1*( unreserved / sub-delims / ":" )
IsWellFormedHostIpFuture(text) ==
  /\ Len(text) >= 4
  /\ text[1] \in {"v", "V"}
  /\ \E d \in 3..(Len(text) - 1) :
       /\ text[d] = "."
       /\ \A i \in 2..(d - 1) : text[i] \in HexDigits
       /\ \A i \in (d + 1)..Len(text) :
            text[i] \in Unreserved \cup SubDelims \cup {":"}

\* reg-name = *( unreserved / pct-encoded / sub-delims )
IsWellFormedHostRegName(text) ==
  \A i \in 1..Len(text) :
    \/ text[i] \in Unreserved \cup SubDelims
    \/ /\ text[i] = "%"
       /\ i + 2 <= Len(text)
       /\ text[i + 1] \in HexDigits
       /\ text[i + 2] \in HexDigits

(***************************************************************************)
(* Pointers, ranges and the allocator's pool                               *)
(***************************************************************************)
NULL == [seg |-> "null", id |-> 0, off |-> 0]

\* the static character empty ranges of an owning URI point at
SafeToPointTo == [seg |-> "static", id |-> 0, off |-> 0]

HeapPtr(a) == [seg |-> "heap", id |-> a, off |-> 0]

InputPtr(o) == [seg |-> "input", id |-> 0, off |-> o]

NullRange == [first |-> NULL, afterLast |-> NULL]

Range(p, len) == [first |-> p, afterLast |-> [p EXCEPT !.off = p.off + len]]

NullHostData == [ip4 |-> NULL, ip6 |-> NULL, ipFuture |-> NullRange]

Addrs == 1..NAddr

FreeCell == [live |-> FALSE, by |-> "none", data |-> <<>>]

Live(mem) == {a \in Addrs : mem[a].live}

LiveBy(mem, who) == {a \in Addrs : mem[a].live /\ mem[a].by = who}

\* memory->malloc: the lowest free cell, 0 (NULL) when the allocator fails
Malloc(mem, fail) ==
  IF fail \/ Live(mem) = Addrs THEN 0
  ELSE CHOOSE a \in Addrs \ Live(mem) : \A b \in Addrs \ Live(mem) : a <= b

Store(mem, a, who, data) ==
  [mem EXCEPT ![a] = [live |-> TRUE, by |-> who, data |-> data]]

\* a free is valid on NULL and on the start of a live cell
ValidFree(mem, p) ==
  p = NULL \/ (p.seg = "heap" /\ p.off = 0 /\ mem[p.id].live)

\* memory->free on environment e = [mem, freed, bad]: the pointer is logged,
\* a live cell is released, NULL is a no-op, anything else is an invalid free
Free(e, p) ==
  [mem |-> IF p # NULL /\ ValidFree(e.mem, p)
           THEN [e.mem EXCEPT ![p.id] = FreeCell] ELSE e.mem,
   freed |-> Append(e.freed, p),
   bad |-> e.bad \/ ~ValidFree(e.mem, p)]

(***************************************************************************)
(* Texts a caller may pass and URIs as the parser leaves them              *)
(***************************************************************************)
Texts ==
  << <<"1", "9", "2", ".", "0", ".", "2", ".", "1">>,
     <<"f", "e", "8", "0", ":", ":", "2", ":", "1">>,
     <<"v", "1", ".", "x">>,
     <<>>,
     <<"a", "%">> >>

ArgPtr(k, o) == [seg |-> "arg", id |-> k, off |-> o]

\* the characters of the range [first, afterLast)
RangeText(mem, input, r) ==
  LET buf == CASE r.first.seg = "heap" -> mem[r.first.id].data
               [] r.first.seg = "input" -> input
               [] r.first.seg = "arg" -> Texts[r.first.id]
               [] OTHER -> <<>>
  IN SubSeq(buf, r.first.off + 1, r.afterLast.off)

EmptyMem == [a \in Addrs |-> FreeCell]

Uri(userInfo, hostText, hostData, portText, path, absolutePath) ==
  [userInfo |-> userInfo, hostText |-> hostText, hostData |-> hostData,
   portText |-> portText, path |-> path, absolutePath |-> absolutePath,
   owner |-> FALSE]

\* parse results of "/x", "//h//x", "//u@h:8/x", "//h:8", "//1.2.3.4", "//[v1.x]",
\* "//[::1]/x" and "//": ranges point into the input, binary records are
\* allocated by the parser
ParsedUris ==
  { [input |-> <<"/", "x">>,
     mem |-> EmptyMem,
     uri |-> Uri(NullRange, NullRange, NullHostData, NullRange,
                 << <<"x">> >>, TRUE)],
    [input |-> <<"/", "/", "h", "/", "/", "x">>,
     mem |-> EmptyMem,
     uri |-> Uri(NullRange, Range(InputPtr(2), 1), NullHostData, NullRange,
                 << <<>>, <<"x">> >>, FALSE)],
    [input |-> <<"/", "/", "u", "@", "h", ":", "8", "/", "x">>,
     mem |-> EmptyMem,
     uri |-> Uri(Range(InputPtr(2), 1), Range(InputPtr(4), 1), NullHostData,
                 Range(InputPtr(6), 1), << <<"x">> >>, FALSE)],
    [input |-> <<"/", "/", "h", ":", "8">>,
     mem |-> EmptyMem,
     uri |-> Uri(NullRange, Range(InputPtr(2), 1), NullHostData,
                 Range(InputPtr(4), 1), <<>>, FALSE)],
    [input |-> <<"/", "/", "1", ".", "2", ".", "3", ".", "4">>,
     mem |-> Store(EmptyMem, 1, "parser", <<1, 2, 3, 4>>),
     uri |-> Uri(NullRange, Range(InputPtr(2), 7),
                 [NullHostData EXCEPT !.ip4 = HeapPtr(1)], NullRange,
                 <<>>, FALSE)],
    [input |-> <<"/", "/", "[", "v", "1", ".", "x", "]">>,
     mem |-> EmptyMem,
     uri |-> Uri(NullRange, Range(InputPtr(3), 4),
                 [NullHostData EXCEPT !.ipFuture = Range(InputPtr(3), 4)],
                 NullRange, <<>>, FALSE)],
    [input |-> <<"/", "/", "[", ":", ":", "1", "]", "/", "x">>,
     mem |-> Store(EmptyMem, 1, "parser",
                   <<0, 0, 0, 0, 0, 0, 0, 0, 0, 0, 0, 0, 0, 0, 0, 1>>),
     uri |-> Uri(NullRange, Range(InputPtr(3), 3),
                 [NullHostData EXCEPT !.ip6 = HeapPtr(1)], NullRange,
                 << <<"x">> >>, FALSE)],
    [input |-> <<"/", "/">>,
     mem |-> EmptyMem,
     uri |-> Uri(NullRange, Range(InputPtr(2), 0), NullHostData, NullRange,
                 <<>>, FALSE)] }

(***************************************************************************)
(* Collaborators of InternalSetHostMm                                      *)
(***************************************************************************)
\* URI_CHECK_MEMORY_MANAGER: returns from the caller when the memory manager
\* is incomplete
CheckMemoryManager(memoryOk) ==
  IF memoryOk THEN URI_SUCCESS ELSE URI_ERROR_NULL

IsWellFormedHostIp6Mm(text, fail) ==
  IF fail THEN URI_ERROR_MALLOC
  ELSE IF IsWellFormedHostIp6(text) THEN URI_SUCCESS ELSE URI_ERROR_SYNTAX

IsWellFormedHostIpFutureMm(text, fail) ==
  IF fail THEN URI_ERROR_MALLOC
  ELSE IF IsWellFormedHostIpFuture(text) THEN URI_SUCCESS ELSE URI_ERROR_SYNTAX

\* result code of the IPv6 binary parser; its contract allows a binary
\* record, a syntax error and an allocation failure
ParseIpSixAddressMm(text, failAt) ==
  CASE failAt = "parser" -> URI_ERROR_MALLOC
    [] failAt = "parserSyntax" -> URI_ERROR_SYNTAX
    [] OTHER -> URI_SUCCESS

HasHost(u) ==
  \/ u.hostText.first # NULL
  \/ u.hostData.ip4 # NULL
  \/ u.hostData.ip6 # NULL
  \/ u.hostData.ipFuture.first # NULL

\* copies a non-empty text into a fresh cell; an absent range stays absent
\* and an empty one points at static storage, both without allocating
CopyRangeAsNeeded(mem, present, text, who, fail) ==
  IF ~present THEN [ok |-> TRUE, range |-> NullRange, mem |-> mem, made |-> {}]
  ELSE IF text = <<>>
  THEN [ok |-> TRUE, range |-> Range(SafeToPointTo, 0), mem |-> mem, made |-> {}]
  ELSE LET a == Malloc(mem, fail)
       IN IF a = 0
          THEN [ok |-> FALSE, range |-> NullRange, mem |-> mem, made |-> {}]
          ELSE [ok |-> TRUE, range |-> Range(HeapPtr(a), Len(text)),
                mem |-> Store(mem, a, who, text), made |-> {a}]

\* re-backs every range of the URI with storage of its own, or changes nothing
MakeOwnerMm(u, mem, input, fail) ==
  LET c1 == CopyRangeAsNeeded(mem, u.userInfo.first # NULL,
                              RangeText(mem, input, u.userInfo), "promoter", fail)
      c2 == CopyRangeAsNeeded(c1.mem, u.hostText.first # NULL,
                              RangeText(mem, input, u.hostText), "promoter", fail)
      c3 == CopyRangeAsNeeded(c2.mem, u.portText.first # NULL,
                              RangeText(mem, input, u.portText), "promoter", fail)
  IN IF ~fail /\ c1.ok /\ c2.ok /\ c3.ok
     THEN [res |-> URI_SUCCESS,
           uri |-> [u EXCEPT !.userInfo = c1.range,
                             !.hostText = c2.range,
                             !.hostData.ipFuture =
                                IF @.first # NULL THEN c2.range ELSE @,
                             !.portText = c3.range,
                             !.owner = TRUE],
           mem |-> c3.mem]
     ELSE [res |-> URI_ERROR_MALLOC, uri |-> u, mem |-> mem]

\* a host-less URI whose absolute path starts with an empty segment would
\* read as "//..." : a "." segment is put in front of it
EnsureThatPathIsNotMistakenForHost(u, mem, fail) ==
  IF \/ HasHost(u)
     \/ ~u.absolutePath
     \/ u.path = <<>>
     \/ Head(u.path) # <<>>
     \/ Len(u.path) = 1
  THEN [ok |-> TRUE, uri |-> u, mem |-> mem]
  ELSE LET a == Malloc(mem, fail)
       IN IF a = 0
          THEN [ok |-> FALSE, uri |-> u, mem |-> mem]
          ELSE [ok |-> TRUE,
                uri |-> [u EXCEPT !.path = << <<".">> >> \o @],
                mem |-> Store(mem, a, "resolver", <<".">>)]

(***************************************************************************)
(* InternalSetHostMm                                                       *)
(***************************************************************************)
\* the places at which an allocation of the call can be made to fail
\* ("parserSyntax": the IPv6 parser rejects a text the validator accepted)
FailSites ==
  {"none", "validator", "promoter", "copy", "record", "parser", "parserSyntax",
   "resolver"}

\* the text between first and afterLast of a call
ArgText(in) == RangeText(EmptyMem, <<>>, [first |-> in.first, afterLast |-> in.afterLast])

Env(mem) == [mem |-> mem, freed |-> <<>>, bad |-> FALSE]

NoAux ==
  [promoter |-> 0, resolver |-> 0, resolverSaw |-> {}, snapshot |-> {},
   snapLive |-> {}, made |-> {}]

\* the outcome of a call: result code, URI and pool on return, and a log of
\* what the call did (where it returned, pointers passed to free, cells the
\* engine allocated, collaborator invocations, the snapshot it took)
Done(res, stage, u, e, aux) ==
  [res |-> res, uri |-> u, mem |-> e.mem,
   log |-> [stage |-> stage, freed |-> e.freed, bad |-> e.bad,
            promoter |-> aux.promoter, resolver |-> aux.resolver,
            resolverSaw |-> aux.resolverSaw, snapshot |-> aux.snapshot,
            snapLive |-> aux.snapLive, made |-> aux.made]]

\* RemovalCheck with the two tests in the other order
RemovalCheck_PortFirst(u) ==
  IF u.portText.first # NULL THEN URI_ERROR_SETHOST_PORT_SET
  ELSE IF u.userInfo.first # NULL THEN URI_ERROR_SETHOST_USERINFO_SET
  ELSE URI_SUCCESS

\* RemovalCheck without the test of the port
RemovalCheck_IgnorePort(u) ==
  IF u.userInfo.first # NULL THEN URI_ERROR_SETHOST_USERINFO_SET
  ELSE URI_SUCCESS

\* lines 99-105: no user info or port without a host
RemovalCheck(u) ==
  IF u.userInfo.first # NULL THEN URI_ERROR_SETHOST_USERINFO_SET
  ELSE IF u.portText.first # NULL THEN URI_ERROR_SETHOST_PORT_SET
  ELSE URI_SUCCESS

\* lines 108-141: syntax-check the new value
SyntaxCheck(in) ==
  CASE in.hostType = URI_HOST_TYPE_IP4 ->
         IF IsWellFormedHostIp4(ArgText(in)) THEN URI_SUCCESS ELSE URI_ERROR_SYNTAX
    [] in.hostType = URI_HOST_TYPE_IP6 ->
         IsWellFormedHostIp6Mm(ArgText(in), in.failAt = "validator")
    [] in.hostType = URI_HOST_TYPE_IPFUTURE ->
         IsWellFormedHostIpFutureMm(ArgText(in), in.failAt = "validator")
    [] in.hostType = URI_HOST_TYPE_REGNAME ->
         IF IsWellFormedHostRegName(ArgText(in)) THEN URI_SUCCESS ELSE URI_ERROR_SYNTAX

\* lines 89-141: the checks made before any change
Gate(u, in) ==
  IF in.uriNull \/ ((in.first = NULL) # (in.afterLast = NULL)) THEN URI_ERROR_NULL
  ELSE IF CheckMemoryManager(in.memoryOk) # URI_SUCCESS
  THEN CheckMemoryManager(in.memoryOk)
  ELSE IF in.first = NULL THEN RemovalCheck(u)
  ELSE SyntaxCheck(in)

\* Restore that forgets .hostData
Restore_TextOnly(u, oldUri) ==
  [u EXCEPT !.hostText = oldUri.hostText]

\* "Restore original value" on the assignment path
Restore(u, oldUri) ==
  [u EXCEPT !.hostText = oldUri.hostText, !.hostData = oldUri.hostData]

\* RestoreRemoval that forgets .absolutePath
RestoreRemoval_KeepAbsolutePath(u, oldUri) ==
  [u EXCEPT !.hostText = oldUri.hostText, !.hostData = oldUri.hostData]

\* lines 168-170: "Restore original value" on the removal path
RestoreRemoval(u, oldUri) ==
  [u EXCEPT !.hostText = oldUri.hostText, !.hostData = oldUri.hostData,
            !.absolutePath = oldUri.absolutePath]

\* ClearOldValue that frees the IPvFuture range and .hostText independently
ClearOldValue_FreeBoth(e, oldUri) ==
  LET e0 == IF /\ oldUri.hostData.ipFuture.first # NULL
               /\ oldUri.owner
               /\ oldUri.hostData.ipFuture.first # oldUri.hostData.ipFuture.afterLast
            THEN Free(e, oldUri.hostData.ipFuture.first)
            ELSE e
      e1 == IF /\ oldUri.hostText.first # NULL
               /\ oldUri.owner
               /\ oldUri.hostText.first # oldUri.hostText.afterLast
            THEN Free(e0, oldUri.hostText.first)
            ELSE e0
      e2 == Free(e1, oldUri.hostData.ip4)
  IN Free(e2, oldUri.hostData.ip6)

\* ClearOldValue that does not look at .owner
ClearOldValue_IgnoreOwner(e, oldUri) ==
  LET e1 == IF oldUri.hostData.ipFuture.first # NULL
            THEN IF oldUri.hostData.ipFuture.first # oldUri.hostData.ipFuture.afterLast
                 THEN Free(e, oldUri.hostData.ipFuture.first)
                 ELSE e
            ELSE IF oldUri.hostText.first # NULL
            THEN IF oldUri.hostText.first # oldUri.hostText.afterLast
                 THEN Free(e, oldUri.hostText.first)
                 ELSE e
            ELSE e
      e2 == Free(e1, oldUri.hostData.ip4)
  IN Free(e2, oldUri.hostData.ip6)

\* ClearOldValue that does not look at the length of the old range
ClearOldValue_FreeEmpty(e, oldUri) ==
  LET e1 == IF oldUri.hostData.ipFuture.first # NULL
            THEN IF oldUri.owner
                 THEN Free(e, oldUri.hostData.ipFuture.first)
                 ELSE e
            ELSE IF oldUri.hostText.first # NULL
            THEN IF oldUri.owner
                 THEN Free(e, oldUri.hostText.first)
                 ELSE e
            ELSE e
      e2 == Free(e1, oldUri.hostData.ip4)
  IN Free(e2, oldUri.hostData.ip6)

\* ClearOldValue that forgets the old IPv4 record
ClearOldValue_KeepIp4(e, oldUri) ==
  LET e1 == IF oldUri.hostData.ipFuture.first # NULL
            THEN IF /\ oldUri.owner
                    /\ oldUri.hostData.ipFuture.first # oldUri.hostData.ipFuture.afterLast
                 THEN Free(e, oldUri.hostData.ipFuture.first)
                 ELSE e
            ELSE IF oldUri.hostText.first # NULL
            THEN IF oldUri.owner /\ oldUri.hostText.first # oldUri.hostText.afterLast
                 THEN Free(e, oldUri.hostText.first)
                 ELSE e
            ELSE e
  IN Free(e1, oldUri.hostData.ip6)

\* lines 251-268: "Clear old value"
ClearOldValue(e, oldUri) ==
  LET e1 == IF oldUri.hostData.ipFuture.first # NULL
            THEN IF /\ oldUri.owner
                    /\ oldUri.hostData.ipFuture.first # oldUri.hostData.ipFuture.afterLast
                 THEN Free(e, oldUri.hostData.ipFuture.first)
                 ELSE e
            ELSE IF oldUri.hostText.first # NULL
            THEN IF oldUri.owner /\ oldUri.hostText.first # oldUri.hostText.afterLast
                 THEN Free(e, oldUri.hostText.first)
                 ELSE e
            ELSE e
      e2 == Free(e1, oldUri.hostData.ip4)
  IN Free(e2, oldUri.hostData.ip6)

\* lines 251-271
Finish(u, e, oldUri, aux) ==
  Done(URI_SUCCESS, "done", u, ClearOldValue(e, oldUri), aux)

\* RemovePath that calls the resolver before it sets .absolutePath
RemovePath_ResolveFirst(u1, e, oldUri, in, aux) ==
  IF HasHost(oldUri)
  THEN LET r == EnsureThatPathIsNotMistakenForHost(u1, e.mem, in.failAt = "resolver")
           aux2 == [aux EXCEPT !.resolver = @ + 1, !.resolverSaw = {u1}]
       IN IF ~r.ok
          THEN Done(URI_ERROR_MALLOC, "resolver", RestoreRemoval(u1, oldUri), e, aux2)
          ELSE Finish([r.uri EXCEPT !.absolutePath = TRUE],
                      [e EXCEPT !.mem = r.mem], oldUri, aux2)
  ELSE Finish(u1, e, oldUri, aux)

\* RemovePath that does not ask whether there was a host
RemovePath_Always(u1, e, oldUri, in, aux) ==
  LET u2 == [u1 EXCEPT !.absolutePath = TRUE]
      r == EnsureThatPathIsNotMistakenForHost(u2, e.mem, in.failAt = "resolver")
      aux2 == [aux EXCEPT !.resolver = @ + 1, !.resolverSaw = {u2}]
  IN IF ~r.ok
     THEN Done(URI_ERROR_MALLOC, "resolver", RestoreRemoval(u2, oldUri), e, aux2)
     ELSE Finish(r.uri, [e EXCEPT !.mem = r.mem], oldUri, aux2)

\* lines 162-174: the new value is absent
RemovePath(u1, e, oldUri, in, aux) ==
  IF HasHost(oldUri)
  THEN LET u2 == [u1 EXCEPT !.absolutePath = TRUE]
           r == EnsureThatPathIsNotMistakenForHost(u2, e.mem, in.failAt = "resolver")
           aux2 == [aux EXCEPT !.resolver = @ + 1, !.resolverSaw = {u2}]
       IN IF ~r.ok
          THEN Done(URI_ERROR_MALLOC, "resolver", RestoreRemoval(u2, oldUri), e, aux2)
          ELSE Finish(r.uri, [e EXCEPT !.mem = r.mem], oldUri, aux2)
  ELSE Finish(u1, e, oldUri, aux)

\* line 248 left out
SetHostPresent_Keep(u) == u

\* line 248
SetHostPresent(u) == [u EXCEPT !.absolutePath = FALSE]

\* lines 190-211
FillIp4(u2, e, oldUri, in, aux) ==
  LET a == Malloc(e.mem, in.failAt = "record")
  IN IF a = 0
     THEN Done(URI_ERROR_MALLOC, "ip4alloc", Restore(u2, oldUri),
               Free(e, u2.hostText.first), aux)
     ELSE Finish(SetHostPresent([u2 EXCEPT !.hostData.ip4 = HeapPtr(a)]),
                 [e EXCEPT !.mem = Store(@, a, "engine",
                                         ParseIpFourAddress(ArgText(in)))],
                 oldUri, [aux EXCEPT !.made = @ \cup {a}])

\* lines 212-237; a record whose parse failed holds no address.  The
\* assertion of line 226 is compiled out (NDEBUG): a parser result other
\* than URI_SUCCESS is returned as it is
FillIp6(u2, e, oldUri, in, aux) ==
  LET a == Malloc(e.mem, in.failAt = "record")
      u3 == [u2 EXCEPT !.hostData.ip6 = HeapPtr(a)]
      aux3 == [aux EXCEPT !.made = @ \cup {a}]
      res == ParseIpSixAddressMm(ArgText(in), in.failAt)
  IN IF a = 0
     THEN Done(URI_ERROR_MALLOC, "ip6alloc", Restore(u2, oldUri),
               Free(e, u2.hostText.first), aux)
     ELSE IF res # URI_SUCCESS
     THEN Done(res, "ip6parse", Restore(u3, oldUri),
               Free([e EXCEPT !.mem = Store(@, a, "engine", <<>>)],
                    u3.hostText.first),
               aux3)
     ELSE Finish(SetHostPresent(u3),
                 [e EXCEPT !.mem = Store(@, a, "engine",
                                         ParseIpSixAddress(ArgText(in)))],
                 oldUri, aux3)

\* FillIpFuture that points .hostData.ipFuture at the caller's range
FillIpFuture_AliasSource(u2, e, oldUri, in, aux) ==
  Finish(SetHostPresent([u2 EXCEPT !.hostData.ipFuture =
                                     [first |-> in.first, afterLast |-> in.afterLast]]),
         e, oldUri, aux)

\* lines 238-241
FillIpFuture(u2, e, oldUri, in, aux) ==
  Finish(SetHostPresent([u2 EXCEPT !.hostData.ipFuture = u2.hostText]),
         e, oldUri, aux)

\* lines 242-243
FillRegName(u2, e, oldUri, in, aux) ==
  Finish(SetHostPresent(u2), e, oldUri, aux)

\* FillHostData that treats an IPvFuture literal like a registered name
FillHostData_NoFuture(u2, e, oldUri, in, aux) ==
  CASE in.hostType = URI_HOST_TYPE_IP4 -> FillIp4(u2, e, oldUri, in, aux)
    [] in.hostType = URI_HOST_TYPE_IP6 -> FillIp6(u2, e, oldUri, in, aux)
    [] OTHER -> FillRegName(u2, e, oldUri, in, aux)

\* lines 188-246: fill .hostData as needed
FillHostData(u2, e, oldUri, in, aux) ==
  CASE in.hostType = URI_HOST_TYPE_IP4 -> FillIp4(u2, e, oldUri, in, aux)
    [] in.hostType = URI_HOST_TYPE_IP6 -> FillIp6(u2, e, oldUri, in, aux)
    [] in.hostType = URI_HOST_TYPE_IPFUTURE -> FillIpFuture(u2, e, oldUri, in, aux)
    [] in.hostType = URI_HOST_TYPE_REGNAME -> FillRegName(u2, e, oldUri, in, aux)

\* AssignPath that clears the old value before it knows the copy succeeded
AssignPath_ClearEarly(u1, e, oldUri, in, aux) ==
  LET cp == CopyRangeAsNeeded(e.mem, TRUE, ArgText(in), "engine",
                              in.failAt = "copy")
  IN IF ~cp.ok
     THEN Done(URI_ERROR_MALLOC, "copy", Restore(u1, oldUri),
               ClearOldValue(e, oldUri), aux)
     ELSE FillHostData([u1 EXCEPT !.hostText = cp.range],
                       [e EXCEPT !.mem = cp.mem], oldUri, in,
                       [aux EXCEPT !.made = @ \cup cp.made])

\* lines 175-249: the new value is present
AssignPath(u1, e, oldUri, in, aux) ==
  LET cp == CopyRangeAsNeeded(e.mem, TRUE, ArgText(in), "engine",
                              in.failAt = "copy")
  IN IF ~cp.ok
     THEN Done(URI_ERROR_MALLOC, "copy", Restore(u1, oldUri), e, aux)
     ELSE FillHostData([u1 EXCEPT !.hostText = cp.range],
                       [e EXCEPT !.mem = cp.mem], oldUri, in,
                       [aux EXCEPT !.made = @ \cup cp.made])

\* ClearHost that leaves .hostData as it is
ClearHost_KeepData(u) == [u EXCEPT !.hostText = NullRange]

\* lines 153-160: snapshot the URI, clear the live host fields
ClearHost(u) == [u EXCEPT !.hostText = NullRange, !.hostData = NullHostData]

\* lines 151-271: apply the new value
Apply(u, mem, in, aux) ==
  LET oldUri == u
      aux1 == [aux EXCEPT !.snapshot = {oldUri}, !.snapLive = Live(mem)]
  IN IF in.first = NULL
     THEN RemovePath(ClearHost(u), Env(mem), oldUri, in, aux1)
     ELSE AssignPath(ClearHost(u), Env(mem), oldUri, in, aux1)

\* EnsureOwned that never calls MakeOwnerMm
EnsureOwned_Skip(u, mem, input, in) == Apply(u, mem, in, NoAux)

\* lines 143-149: ensure owned
EnsureOwned(u, mem, input, in) ==
  IF in.first # NULL /\ ~u.owner
  THEN LET mo == MakeOwnerMm(u, mem, input, in.failAt = "promoter")
           aux == [NoAux EXCEPT !.promoter = 1]
       IN IF mo.res # URI_SUCCESS
          THEN Done(mo.res, "promoter", mo.uri, Env(mo.mem), aux)
          ELSE Apply(mo.uri, mo.mem, in, aux)
  ELSE Apply(u, mem, in, NoAux)

\* InternalSetHostMm that makes the URI owner before it checks the new value
InternalSetHostMm_OwnFirst(u, mem, input, in) ==
  IF \/ in.uriNull
     \/ in.first = NULL
     \/ in.afterLast = NULL
     \/ CheckMemoryManager(in.memoryOk) # URI_SUCCESS
     \/ u.owner
  THEN IF Gate(u, in) # URI_SUCCESS
       THEN Done(Gate(u, in), "gate", u, Env(mem), NoAux)
       ELSE EnsureOwned(u, mem, input, in)
  ELSE LET mo == MakeOwnerMm(u, mem, input, in.failAt = "promoter")
           aux == [NoAux EXCEPT !.promoter = 1]
       IN IF mo.res # URI_SUCCESS
          THEN Done(mo.res, "promoter", mo.uri, Env(mo.mem), aux)
          ELSE IF Gate(mo.uri, in) # URI_SUCCESS
          THEN Done(Gate(mo.uri, in), "gate", mo.uri, Env(mo.mem), aux)
          ELSE Apply(mo.uri, mo.mem, in, aux)

\* lines 84-272
InternalSetHostMm(u, mem, input, in) ==
  IF Gate(u, in) # URI_SUCCESS
  THEN Done(Gate(u, in), "gate", u, Env(mem), NoAux)
  ELSE EnsureOwned(u, mem, input, in)

(***************************************************************************)
(* State machine: a URI as parsed, then any sequence of SetHost calls      *)
(***************************************************************************)
VARIABLES
  uri,      \* the UriUri object the caller holds
  mem,      \* the allocator's pool
  input,    \* the string the URI was parsed from (not owned by the URI)
  call,     \* the last call: arguments, result, state before it, its log
  ncalls,   \* number of calls made so far
  invalidFree,   \* some call so far passed a dead or foreign pointer to free
  onlyAssigned   \* every call so far was a successful assignment

vars == <<uri, mem, input, call, ncalls, invalidFree, onlyAssigned>>

\* the places of a call of the given kind at which an allocation can fail
FailSitesOf(t) ==
  CASE t = URI_HOST_TYPE_IP4 -> {"none", "promoter", "copy", "record"}
    [] t = URI_HOST_TYPE_IP6 ->
         {"none", "validator", "promoter", "copy", "record", "parser",
          "parserSyntax"}
    [] t = URI_HOST_TYPE_IPFUTURE -> {"none", "validator", "promoter", "copy"}
    [] t = URI_HOST_TYPE_REGNAME -> {"none", "promoter", "copy"}

Call(n, t, f, l, m, s) ==
  [uriNull |-> n, hostType |-> t, first |-> f, afterLast |-> l,
   memoryOk |-> m, failAt |-> s]

\* a new host of kind t with text k, an allocation failing at s
AssignCalls ==
  { Call(FALSE, ts[1], ArgPtr(k, 0), ArgPtr(k, Len(Texts[k])), TRUE, ts[2]) :
      ts \in {x \in UriHostType \X FailSites : x[2] \in FailSitesOf(x[1])},
      k \in 1..Len(Texts) }

\* removal of the host: first and afterLast are both NULL
RemoveCalls ==
  { Call(FALSE, t, NULL, NULL, TRUE, s) :
      t \in UriHostType, s \in {"none", "resolver"} }

\* calls the gate rejects as malformed: no URI, half a range, an incomplete
\* memory manager
MalformedCalls ==
  { Call(TRUE, URI_HOST_TYPE_REGNAME, ArgPtr(1, 0), ArgPtr(1, Len(Texts[1])),
         TRUE, "none"),
    Call(FALSE, URI_HOST_TYPE_IP4, ArgPtr(1, 0), NULL, TRUE, "none"),
    Call(FALSE, URI_HOST_TYPE_REGNAME, NULL, ArgPtr(1, Len(Texts[1])), TRUE, "none"),
    Call(FALSE, URI_HOST_TYPE_IP4, ArgPtr(1, 0), ArgPtr(1, Len(Texts[1])),
         FALSE, "none"),
    Call(FALSE, URI_HOST_TYPE_REGNAME, NULL, NULL, FALSE, "none") }

\* the calls a caller can make
Calls == AssignCalls \cup RemoveCalls \cup MalformedCalls

\* the arguments of a call, without the allocator's behaviour during it
Args(in) ==
  [uriNull |-> in.uriNull, hostType |-> in.hostType, first |-> in.first,
   afterLast |-> in.afterLast, memoryOk |-> in.memoryOk]

NoCall == Args(Call(FALSE, URI_HOST_TYPE_REGNAME, NULL, NULL, TRUE, "none"))

Init ==
  /\ \E p \in ParsedUris : uri = p.uri /\ mem = p.mem /\ input = p.input
  /\ call = [in |-> NoCall, res |-> "none", pre |-> uri,
             preLive |-> Live(mem),
             preText |-> RangeText(mem, input, uri.hostText),
             log |-> Done("none", "none", uri, Env(mem), NoAux).log]
  /\ ncalls = 0
  /\ invalidFree = FALSE
  /\ onlyAssigned = TRUE

SetHost ==
  \E in \in Calls :
    /\ ncalls < MaxCalls
    /\ ncalls' = ncalls + 1
    /\ \E r \in {InternalSetHostMm(uri, mem, input, in)} :
          /\ uri' = r.uri
          /\ mem' = r.mem
          /\ call' = [in |-> Args(in), res |-> r.res, pre |-> uri,
                      preLive |-> Live(mem),
                      preText |-> RangeText(mem, input, uri.hostText),
                      log |-> r.log]
          /\ invalidFree' = (invalidFree \/ r.log.bad)
          /\ onlyAssigned' = (onlyAssigned /\ r.res = URI_SUCCESS /\ in.first # NULL)
    /\ UNCHANGED input

Next == SetHost

Spec == Init /\ [][Next]_vars

(***************************************************************************)
(* Vocabulary of the properties                                            *)
(***************************************************************************)
Called == call.res # "none"

Removal == Called /\ ~call.in.uriNull /\ call.in.first = NULL /\ call.in.afterLast = NULL

Assignment == Called /\ ~call.in.uriNull /\ call.in.first # NULL /\ call.in.afterLast # NULL

\* the URI the call started from
Pre == call.pre

\* the snapshot "oldUri" the call took, if it got that far
Snapshot == CHOOSE o \in call.log.snapshot : TRUE

HostFieldsAsIn(u) ==
  /\ uri.hostText = u.hostText
  /\ uri.hostData = u.hostData
  /\ uri.absolutePath = u.absolutePath

\* number of times pointer p was passed to memory->free by the call
TimesFreed(p) == Cardinality({i \in DOMAIN call.log.freed : call.log.freed[i] = p})

\* the call changed neither the URI nor the pool and made no allocator call
NothingTouched ==
  /\ uri = Pre
  /\ Live(mem) = call.preLive
  /\ call.log.freed = <<>>
  /\ call.log.made = {}

\* cells holding the current host: its text buffer and its binary record
HostCells ==
  {p.id : p \in {q \in {uri.hostText.first, uri.hostData.ip4, uri.hostData.ip6} :
                   q.seg = "heap"}}

\* cells holding the other components of an owning URI
OtherCells ==
  {p.id : p \in {q \in {uri.userInfo.first, uri.portText.first} : q.seg = "heap"}}

\* known addresses of the literals among Texts
ExpectedAddress(k) ==
  CASE k = 1 -> <<192, 0, 2, 1>>
    [] k = 2 -> <<254, 128, 0, 0, 0, 0, 0, 0, 0, 0, 0, 0, 0, 2, 0, 1>>
    [] OTHER -> <<>>

(***************************************************************************)
(* C1: when a call returns URI_ERROR_MALLOC, hostText, hostData,           *)
(* absolutePath and owner have the values they had before the call.        *)
(* Stated as in the specification; false when the call itself promoted the *)
(* URI to owner mode before the failing step.                              *)
(***************************************************************************)
C1_RollbackIncludesOwner ==
  call.res = URI_ERROR_MALLOC =>
    HostFieldsAsIn(Pre) /\ uri.owner = Pre.owner

(***************************************************************************)
(* C1 as amended: when a call returns URI_ERROR_MALLOC, ip4, ip6 and       *)
(* absolutePath have their values from before the call; hostText, ipFuture *)
(* and owner too unless the call's own MakeOwnerMm succeeded, in which     *)
(* case owner is TRUE and the host fields are those of the promoted URI,   *)
(* hostText holding the same text as before the call.                      *)
(***************************************************************************)
C1_RollbackAfterPromotion ==
  call.res = URI_ERROR_MALLOC =>
    /\ uri.hostData.ip4 = Pre.hostData.ip4
    /\ uri.hostData.ip6 = Pre.hostData.ip6
    /\ uri.absolutePath = Pre.absolutePath
    /\ IF call.log.snapshot = {} \/ call.log.promoter = 0
       THEN HostFieldsAsIn(Pre) /\ uri.owner = Pre.owner
       ELSE /\ ~Pre.owner /\ uri.owner
            /\ HostFieldsAsIn(Snapshot)
            /\ RangeText(mem, input, uri.hostText) = call.preText
            /\ (uri.hostText.first = NULL) = (Pre.hostText.first = NULL)
            /\ (uri.hostData.ipFuture.first = NULL) = (Pre.hostData.ipFuture.first = NULL)

\* a failure after the call promoted a URI that had a host
C1_Witness ==
  /\ call.res = URI_ERROR_MALLOC
  /\ call.log.promoter = 1
  /\ call.log.snapshot # {}
  /\ Pre.hostText.first # NULL
  /\ uri.hostText # Pre.hostText

(***************************************************************************)
(* C2: when a call fails after the new host text was materialized (IPv4 or *)
(* IPv6 record allocation, IPv6 binary parser), every cell the engine      *)
(* allocated during the call is free again and the live cells are those of *)
(* the moment before the materialization.                                  *)
(***************************************************************************)
C2_FailureReleasesAll ==
  call.log.stage \in {"ip4alloc", "ip6alloc", "ip6parse"} =>
    /\ call.log.made \cap Live(mem) = {}
    /\ Live(mem) = call.log.snapLive

(***************************************************************************)
(* C3: a removal on a URI whose userInfo is set fails with                 *)
(* URI_ERROR_SETHOST_USERINFO_SET, a removal on a URI whose portText is    *)
(* set fails with URI_ERROR_SETHOST_PORT_SET, and neither changes          *)
(* anything.  Stated as in the specification, for calls that get past the  *)
(* memory-manager check of line 94; false when both are set, because the   *)
(* test of userInfo comes first.                                           *)
(***************************************************************************)
C3_RemovalBlockedAlways ==
  /\ Removal /\ call.in.memoryOk /\ Pre.userInfo.first # NULL =>
       call.res = URI_ERROR_SETHOST_USERINFO_SET /\ NothingTouched
  /\ Removal /\ call.in.memoryOk /\ Pre.portText.first # NULL =>
       call.res = URI_ERROR_SETHOST_PORT_SET /\ NothingTouched

(***************************************************************************)
(* C3 as amended: with a complete memory manager, a removal on a URI whose *)
(* userInfo is set fails with URI_ERROR_SETHOST_USERINFO_SET, a removal on *)
(* a URI whose portText is set and whose userInfo is not fails with        *)
(* URI_ERROR_SETHOST_PORT_SET, and neither changes anything.               *)
(***************************************************************************)
C3_RemovalBlocked ==
  /\ Removal /\ call.in.memoryOk /\ Pre.userInfo.first # NULL =>
       call.res = URI_ERROR_SETHOST_USERINFO_SET /\ NothingTouched
  /\ Removal /\ call.in.memoryOk /\ Pre.userInfo.first = NULL
       /\ Pre.portText.first # NULL =>
       call.res = URI_ERROR_SETHOST_PORT_SET /\ NothingTouched

\* a removal refused although both user info and port are set
C3_Witness ==
  /\ Removal /\ call.in.memoryOk
  /\ Pre.userInfo.first # NULL /\ Pre.portText.first # NULL
  /\ call.res = URI_ERROR_SETHOST_USERINFO_SET

(***************************************************************************)
(* C4: a successful call on an owning URI whose host is a non-empty        *)
(* IPvFuture literal passes the buffer shared by hostText and ipFuture to  *)
(* free exactly once, and no call ever passes to free a pointer that is    *)
(* not a live allocation (so nothing is freed twice).                      *)
(***************************************************************************)
C4_SharedBufferFreedOnce ==
  /\ ~invalidFree
  /\ (/\ call.res = URI_SUCCESS
      /\ Pre.owner
      /\ Pre.hostData.ipFuture.first # NULL
      /\ Pre.hostData.ipFuture.first # Pre.hostData.ipFuture.afterLast)
     => /\ TimesFreed(Pre.hostText.first) = 1
        /\ Pre.hostText.first.id \notin Live(mem)

\* an owned IPvFuture host was replaced or removed and its buffer freed
C4_Witness ==
  /\ call.res = URI_SUCCESS
  /\ Pre.owner
  /\ Pre.hostData.ipFuture.first.seg = "heap"
  /\ Pre.hostData.ipFuture.first = Pre.hostText.first
  /\ TimesFreed(Pre.hostText.first) = 1

(***************************************************************************)
(* C5: as long as every call was a successful assignment, the live cells   *)
(* are exactly the storage of the current host (a text buffer when the     *)
(* text is non-empty, a record for IPv4 and IPv6), all allocated by the    *)
(* engine, next to the copies of user info and port; nothing of an earlier *)
(* host is left.                                                           *)
(***************************************************************************)
C5_NoLeakAcrossAssignments ==
  onlyAssigned /\ Called =>
    /\ Live(mem) = HostCells \cup OtherCells
    /\ LiveBy(mem, "engine") = HostCells
    /\ (uri.hostText.first.seg = "heap") = (uri.hostText.first # uri.hostText.afterLast)
    /\ (uri.hostData.ip4 # NULL) = (call.in.hostType = URI_HOST_TYPE_IP4)
    /\ (uri.hostData.ip6 # NULL) = (call.in.hostType = URI_HOST_TYPE_IP6)
    /\ Cardinality(HostCells) =
         (IF uri.hostText.first # uri.hostText.afterLast THEN 1 ELSE 0)
         + (IF call.in.hostType \in {URI_HOST_TYPE_IP4, URI_HOST_TYPE_IP6} THEN 1 ELSE 0)

\* an engine-made IPv4 host replaced by an IPv6 host
C5_Witness ==
  /\ onlyAssigned /\ ncalls >= 2
  /\ Pre.hostData.ip4 # NULL /\ Pre.owner
  /\ uri.hostData.ip6 # NULL
  /\ Cardinality(LiveBy(mem, "engine")) = 2

(***************************************************************************)
(* C6: after a successful assignment absolutePath is FALSE; after a        *)
(* successful removal from a URI that had a host absolutePath is TRUE.     *)
(***************************************************************************)
C6_AbsolutePathToggles ==
  /\ Assignment /\ call.res = URI_SUCCESS => ~uri.absolutePath
  /\ Removal /\ call.res = URI_SUCCESS /\ Pre.hostText.first # NULL => uri.absolutePath

\* a host was assigned to a URI that had an absolute path and no host
C6_Witness ==
  /\ Assignment /\ call.res = URI_SUCCESS
  /\ Pre.absolutePath /\ ~uri.absolutePath

(***************************************************************************)
(* C7: between calls, when hostData.ipFuture.first is set the ipFuture     *)
(* range has the very pointers of hostText.                                *)
(***************************************************************************)
C7_IpFutureAliasesHostText ==
  uri.hostData.ipFuture.first # NULL =>
    /\ uri.hostData.ipFuture.first = uri.hostText.first
    /\ uri.hostData.ipFuture.afterLast = uri.hostText.afterLast

\* right after a successful IPvFuture assignment
C7_Witness ==
  /\ Assignment /\ call.res = URI_SUCCESS
  /\ call.in.hostType = URI_HOST_TYPE_IPFUTURE
  /\ uri.hostData.ipFuture.first.seg = "heap"

(***************************************************************************)
(* C8: a successful assignment of range R with kind K leaves hostText      *)
(* holding the text of R and hostData in the shape of K: the ip4 or ip6    *)
(* record holds the address of R, ipFuture is set for IPvFuture, and every *)
(* member that does not belong to K is NULL.                               *)
(***************************************************************************)
C8_HostTextAndShape ==
  Assignment /\ call.res = URI_SUCCESS =>
    /\ uri.hostText.first # NULL
    /\ RangeText(mem, input, uri.hostText) = Texts[call.in.first.id]
    /\ (call.in.hostType = URI_HOST_TYPE_IP4) = (uri.hostData.ip4 # NULL)
    /\ (call.in.hostType = URI_HOST_TYPE_IP6) = (uri.hostData.ip6 # NULL)
    /\ (call.in.hostType = URI_HOST_TYPE_IPFUTURE) = (uri.hostData.ipFuture.first # NULL)
    /\ (uri.hostData.ipFuture.first = NULL) = (uri.hostData.ipFuture.afterLast = NULL)
    /\ \A p \in {uri.hostData.ip4, uri.hostData.ip6} \ {NULL} :
         /\ p.seg = "heap" /\ mem[p.id].live
         /\ mem[p.id].data = ExpectedAddress(call.in.first.id)

\* the scenario of the specification: IPv4 "192.0.2.1" on a host-less URI
C8_Witness ==
  /\ Assignment /\ call.res = URI_SUCCESS
  /\ call.in.hostType = URI_HOST_TYPE_IP4
  /\ Pre.hostText.first = NULL
  /\ mem[uri.hostData.ip4.id].data = <<192, 0, 2, 1>>

(***************************************************************************)
(* C9: a call that fails in the validation gate (URI_ERROR_NULL, a         *)
(* user-info-present or port-present error, URI_ERROR_SYNTAX from the      *)
(* validator) has not invoked MakeOwnerMm and has not allocated, freed or  *)
(* written anything: the URI, owner included, is as before the call.       *)
(***************************************************************************)
C9_GateBeforeMutation ==
  /\ call.log.stage = "gate"
  /\ call.res \in {URI_ERROR_NULL, URI_ERROR_SETHOST_USERINFO_SET,
                   URI_ERROR_SETHOST_PORT_SET, URI_ERROR_SYNTAX}
  =>
    /\ NothingTouched
    /\ call.log.promoter = 0
    /\ call.log.snapshot = {}

\* the scenario of the specification: an IPv6 host that is no address, on
\* a URI that is not yet owner
C9_Witness ==
  /\ call.res = URI_ERROR_SYNTAX
  /\ call.log.stage = "gate"
  /\ call.in.hostType = URI_HOST_TYPE_IP6
  /\ ~Pre.owner /\ ~uri.owner
  /\ Pre.hostText.first # NULL

(***************************************************************************)
(* C10: between calls, a URI without hostText has neither userInfo nor     *)
(* portText.                                                               *)
(***************************************************************************)
C10_NoAuthorityPartsWithoutHost ==
  uri.hostText.first = NULL =>
    uri.userInfo.first = NULL /\ uri.portText.first = NULL

\* a host was removed
C10_Witness ==
  /\ Removal /\ call.res = URI_SUCCESS
  /\ Pre.hostText.first # NULL /\ uri.hostText.first = NULL


\* the call returned an error
Failed == Called /\ call.res # URI_SUCCESS

\* the pointers that backed the host of URI u: text buffer and records
HostPointers(u) == {u.hostText.first, u.hostData.ip4, u.hostData.ip6} \ {NULL}

(***************************************************************************)
(* C11: a call that fails after it took the snapshot (resolver,            *)
(* materializer, IPv4 or IPv6 record allocation, IPv6 parser) returns with *)
(* hostText, hostData (ip4, ip6 and ipFuture) and absolutePath as in the   *)
(* snapshot.                                                               *)
(***************************************************************************)
C11_FailureRestoresSnapshot ==
  Failed /\ call.log.snapshot # {} =>
    /\ call.log.stage \in {"resolver", "copy", "ip4alloc", "ip6alloc", "ip6parse"}
    /\ HostFieldsAsIn(Snapshot)

\* the resolver failed after absolutePath had been set
C11_Witness ==
  /\ Failed /\ call.log.stage = "resolver"
  /\ call.log.resolver = 1
  /\ ~Snapshot.absolutePath /\ ~uri.absolutePath
  /\ uri.hostText.first # NULL

(***************************************************************************)
(* C12: a call that returns an error has passed to free none of the        *)
(* allocations that backed the host before the call (old hostText buffer,  *)
(* old IPv4 or IPv6 record), and the host fields of the URI point at live  *)
(* storage on return.                                                      *)
(***************************************************************************)
C12_NoCleanupOnFailure ==
  Failed =>
    /\ \A p \in HostPointers(Pre) : TimesFreed(p) = 0
    /\ call.log.snapshot # {} => \A p \in HostPointers(Snapshot) : TimesFreed(p) = 0
    /\ \A p \in HostPointers(uri) : p.seg = "heap" => mem[p.id].live

\* a failure past the snapshot on an owning URI with an IPv4 host, after the
\* new text had been copied and freed again
C12_Witness ==
  /\ Failed /\ call.log.snapshot # {}
  /\ Pre.owner
  /\ Pre.hostText.first.seg = "heap"
  /\ Pre.hostData.ip4 # NULL
  /\ Len(call.log.freed) = 1


(***************************************************************************)
(* C13: once a call has taken the snapshot and cleared the host fields,    *)
(* the only error it returns is URI_ERROR_MALLOC; URI_ERROR_NULL, the      *)
(* user-info-present and port-present errors and URI_ERROR_SYNTAX come     *)
(* from the validation gate only, whatever the IPv6 binary parser returns  *)
(* within its contract.                                                    *)
(***************************************************************************)
C13_OnlyMallocAfterSnapshot ==
  /\ Failed /\ call.log.snapshot # {} => call.res = URI_ERROR_MALLOC
  /\ call.res \in {URI_ERROR_NULL, URI_ERROR_SETHOST_USERINFO_SET,
                   URI_ERROR_SETHOST_PORT_SET, URI_ERROR_SYNTAX}
       => call.log.stage = "gate" /\ call.log.snapshot = {}


(***************************************************************************)
(* C14: a removal on a URI that is not owner never invokes MakeOwnerMm,    *)
(* leaves owner FALSE and passes to free only the old ip4 and ip6 record   *)
(* pointers, never the old hostText or ipFuture pointer; no call at all    *)
(* passes to free a pointer into storage the URI does not own.             *)
(***************************************************************************)
C14_NoTextFreeWithoutOwner ==
  /\ \A i \in DOMAIN call.log.freed : call.log.freed[i].seg \in {"null", "heap"}
  /\ Removal /\ ~Pre.owner =>
       /\ call.log.promoter = 0
       /\ ~uri.owner
       /\ \A i \in DOMAIN call.log.freed :
            call.log.freed[i] \in {Pre.hostData.ip4, Pre.hostData.ip6}
       /\ \A p \in {Pre.hostText.first, Pre.hostData.ipFuture.first} \ {NULL} :
            TimesFreed(p) = 0

\* the host of a parsed IPv4 URI was removed and its record freed
C14_Witness ==
  /\ Removal /\ call.res = URI_SUCCESS
  /\ ~Pre.owner
  /\ Pre.hostText.first.seg = "input"
  /\ Pre.hostData.ip4 # NULL
  /\ TimesFreed(Pre.hostData.ip4) = 1

(***************************************************************************)
(* C15: a successful call passes the pointer of a zero-length old host     *)
(* text (or of the old ipFuture range aliasing it) to free no time, and    *)
(* the pointer of a non-empty old host text of an owning URI exactly once. *)
(***************************************************************************)
C15_EmptyTextNeverFreed ==
  call.res = URI_SUCCESS /\ call.log.snapshot # {} /\ Snapshot.hostText.first # NULL =>
    /\ Snapshot.hostText.first = Snapshot.hostText.afterLast
         => TimesFreed(Snapshot.hostText.first) = 0
    /\ Snapshot.owner /\ Snapshot.hostText.first # Snapshot.hostText.afterLast
         => TimesFreed(Snapshot.hostText.first) = 1

\* the empty host of an owning URI was replaced or removed
C15_Witness ==
  /\ call.res = URI_SUCCESS /\ call.log.snapshot # {}
  /\ Snapshot.owner
  /\ Snapshot.hostText.first = SafeToPointTo
  /\ Snapshot.hostText.afterLast = SafeToPointTo
  /\ uri.hostText # Snapshot.hostText

(***************************************************************************)
(* C16: on the removal path the resolver is invoked exactly when the       *)
(* snapshot shows a host; when it is invoked the live URI has hostText and *)
(* every hostData member cleared and absolutePath TRUE; it is never        *)
(* invoked on the assignment path.                                         *)
(***************************************************************************)
C16_ResolverOnRemovalOfHost ==
  /\ Removal /\ call.log.snapshot # {} =>
       (call.log.resolver = 1) = (Snapshot.hostText.first # NULL)
  /\ call.log.resolver <= 1
  /\ call.log.resolver = 1 =>
       /\ Removal
       /\ \A s \in call.log.resolverSaw :
            /\ s.hostText = NullRange
            /\ s.hostData = NullHostData
            /\ s.absolutePath
       /\ call.log.resolverSaw # {}
  /\ Assignment => call.log.resolver = 0 /\ call.log.resolverSaw = {}

\* the resolver ran on the removal of a host from a URI without absolute path
C16_Witness ==
  /\ Removal /\ call.res = URI_SUCCESS
  /\ call.log.resolver = 1
  /\ ~Pre.absolutePath
  /\ Pre.hostText.first # NULL

(***************************************************************************)
(* C17: between calls at most one of hostData.ip4, hostData.ip6 and        *)
(* hostData.ipFuture.first is set, and when one is set hostText.first is   *)
(* set too.                                                                *)
(***************************************************************************)
C17_OneHostDataMember ==
  /\ Cardinality({m \in {"ip4", "ip6", "ipFuture"} :
                    \/ m = "ip4" /\ uri.hostData.ip4 # NULL
                    \/ m = "ip6" /\ uri.hostData.ip6 # NULL
                    \/ m = "ipFuture" /\ uri.hostData.ipFuture.first # NULL}) <= 1
  /\ (\/ uri.hostData.ip4 # NULL
      \/ uri.hostData.ip6 # NULL
      \/ uri.hostData.ipFuture.first # NULL) => uri.hostText.first # NULL

\* an IPv4 host was replaced by an IPvFuture host on a URI that began host-less
C17_Witness ==
  /\ input = <<"/", "x">>
  /\ call.res = URI_SUCCESS
  /\ Pre.hostData.ip4 # NULL
  /\ uri.hostData.ipFuture.first # NULL

(***************************************************************************)
(* C18: after a successful assignment the URI is owner, whatever owner was *)
(* before; MakeOwnerMm is invoked at most once per call, and only when the *)
(* new range is present and owner was FALSE.                               *)
(***************************************************************************)
C18_OwnerAfterAssignment ==
  /\ Assignment /\ call.res = URI_SUCCESS => uri.owner
  /\ call.log.promoter <= 1
  /\ call.log.promoter = 1 => Assignment /\ ~Pre.owner
  /\ Assignment /\ ~Pre.owner /\ call.log.stage # "gate" => call.log.promoter = 1

\* a successful assignment promoted a parsed URI
C18_Witness ==
  /\ Assignment /\ call.res = URI_SUCCESS
  /\ ~Pre.owner /\ uri.owner
  /\ call.log.promoter = 1
  /\ Pre.hostText.first.seg = "input"

====
